---- MODULE Spec2Model ----
(***************************************************************************)
(* Payment ledger of the transcription bot: the Wallet / Transaction       *)
(* tables, the wallet service (add / deduct / refund), the Click           *)
(* Prepare/Complete webhooks and the Payme JSON-RPC webhook.               *)
(*                                                                         *)
(* Money is counted in whole units of the smallest amount the model uses;  *)
(* a nullable numeric column is an optional value: {} is NULL, {v} is v.   *)
(* A nullable datetime column holds 0 for NULL; the clock starts at 1.     *)
(* A nullable string column holds None for NULL.                           *)
(* The columns no operation of the ledger reads back are left out:         *)
(* wallets.last_transaction_at, updated_at (and with it the cancel_time    *)
(* Payme is told), currency, description, metadata, payment_method.        *)
(***************************************************************************)
EXTENDS Integers, Sequences, FiniteSets, TLC

VARIABLES
    wallet,         \* the user's row of table wallets
    transactions,   \* table transactions: row i has primary key i
    initial_balance,\* pricing_settings.initial_balance, fixed at start-up
    now,            \* the wall clock read by timezone.now()
    last,           \* the last call and what it returned
    done,           \* history: the gateway requests that have succeeded
    pc,             \* per worker: where its ledger call stands
    loc             \* per worker: the objects its call has loaded

vars == <<wallet, transactions, initial_balance, now, last, done, pc, loc>>

----------------------------------------------------------------------------
(* Bounds of the model *)

MaxInitialBalance == 1
MaxAmount == 2
MaxBalance == 3
MaxTotal == 3
MaxRows == 5
MaxMixedRows == 3
MaxTime == 2
DayLen == 1
NPending == 1
NWorkers == 2
MaxCancels == 3
MaxLimit == 2

Amounts == 1..MaxAmount
None == "None"
NULL == {}
Some(v) == {v}
Val(o) == CHOOSE v \in o : TRUE

----------------------------------------------------------------------------
(* Table transactions *)

\* reference_id: default=uuid.uuid4, unique. Row i created by the ledger or a
\* front end gets the i-th fresh identifier.
reference_id_default(i) == "r" \o ToString(i)

Rows == DOMAIN transactions

\* Transaction.objects.create(...): appends the row; created_at is auto_now_add,
\* status defaults to pending, the nullable columns default to NULL.
NewRow(rows, t, type, amount, balance_before, balance_after, status, external_id) ==
    [ type |-> type,
      amount |-> amount,
      balance_before |-> balance_before,
      balance_after |-> balance_after,
      status |-> status,
      reference_id |-> reference_id_default(Len(rows) + 1),
      external_id |-> external_id,
      gateway |-> None,
      gateway_transaction_id |-> None,
      processed_at |-> IF status = "completed" THEN t ELSE 0,
      failed_reason |-> "",
      created_at |-> t ]

create_transaction(rows, t, type, amount, balance_before, balance_after, status, external_id) ==
    Append(rows, NewRow(rows, t, type, amount, balance_before, balance_after,
                        status, external_id))

\* A pending top-up the bot has created for a gateway payment
\* (bot/handlers/payment.py): both balance columns hold the balance of the moment.
PendingRow(rows, t, amount, balance) ==
    NewRow(rows, t, "credit", amount, Some(balance), Some(balance), "pending", None)

RECURSIVE SumAmounts(_)
SumAmounts(rows) ==
    IF rows = <<>> THEN 0 ELSE Head(rows).amount + SumAmounts(Tail(rows))

Day(t) == (t - 1) \div DayLen
Month(t) == 0

\* Wallet.get_daily_spent / get_monthly_spent
get_daily_spent(rows, t) ==
    LET P(r) == r.type = "debit" /\ r.status = "completed" /\ Day(r.created_at) = Day(t)
    IN  SumAmounts(SelectSeq(rows, P))

get_monthly_spent(rows, t) ==
    LET P(r) == r.type = "debit" /\ r.status = "completed" /\ Month(r.created_at) = Month(t)
    IN  SumAmounts(SelectSeq(rows, P))

----------------------------------------------------------------------------
(* Wallet service: services/payment/wallet_service.py *)

\* TransactionResult
Result(ok, err, w, rows) == [success |-> ok, error |-> err, wallet |-> w, rows |-> rows]

add_balance(w, rows, t, amount, external_id) ==
    IF amount <= 0 THEN Result(FALSE, "Amount must be positive", w, rows)
    ELSE LET w2 == [w EXCEPT !.balance = @ + amount,
                             !.total_credited = @ + amount]
         IN  Result(TRUE, "", w2,
                    create_transaction(rows, t, "credit", amount, Some(w.balance),
                                       Some(w2.balance), "completed", external_id))

\* deduct_balance as it would be with the balance check left out
deduct_check_unchecked(w, rows, t, amount, skip_balance_check) ==
    IF amount <= 0 THEN "Amount must be positive"
    ELSE IF ~w.is_active THEN "Wallet is inactive"
    ELSE ""

\* deduct_balance as it would be without the is_active check
deduct_check_any_wallet(w, rows, t, amount, skip_balance_check) ==
    IF amount <= 0 THEN "Amount must be positive"
    ELSE IF ~skip_balance_check /\ w.balance < amount THEN "Insufficient balance"
    ELSE IF w.daily_limit # NULL /\ get_daily_spent(rows, t) + amount > Val(w.daily_limit)
         THEN "Daily limit exceeded"
    ELSE IF w.monthly_limit # NULL /\ get_monthly_spent(rows, t) + amount > Val(w.monthly_limit)
         THEN "Monthly limit exceeded"
    ELSE ""

\* The checks of deduct_balance, in the order of the code, on the wallet object
\* the call has loaded.
deduct_check(w, rows, t, amount, skip_balance_check) ==
    IF amount <= 0 THEN "Amount must be positive"
    ELSE IF ~w.is_active THEN "Wallet is inactive"
    ELSE IF ~skip_balance_check /\ w.balance < amount THEN "Insufficient balance"
    ELSE IF w.daily_limit # NULL /\ get_daily_spent(rows, t) + amount > Val(w.daily_limit)
         THEN "Daily limit exceeded"
    ELSE IF w.monthly_limit # NULL /\ get_monthly_spent(rows, t) + amount > Val(w.monthly_limit)
         THEN "Monthly limit exceeded"
    ELSE ""

\* wallet.save(update_fields=[balance, total_debited, ...]) of the
\* loaded object obj over the stored row w, then the debit row.
deduct_save(w, obj, rows, t, amount) ==
    LET w2 == [w EXCEPT !.balance = obj.balance - amount,
                        !.total_debited = obj.total_debited + amount]
    IN  Result(TRUE, "", w2,
               create_transaction(rows, t, "debit", amount, Some(obj.balance),
                                  Some(w2.balance), "completed", None))

deduct_balance(w, rows, t, amount, skip_balance_check) ==
    LET err == deduct_check(w, rows, t, amount, skip_balance_check)
    IN  IF err # "" THEN Result(FALSE, err, w, rows)
        ELSE deduct_save(w, w, rows, t, amount)

refund_balance(w, rows, t, amount) ==
    IF amount <= 0 THEN Result(FALSE, "Amount must be positive", w, rows)
    ELSE LET w2 == [w EXCEPT !.balance = @ + amount,
                             !.total_credited = @ + amount]
         IN  Result(TRUE, "", w2,
                    create_transaction(rows, t, "refund", amount, Some(w.balance),
                                       Some(w2.balance), "completed", None))

\* _create_transaction raising after wallet.save(). The `except Exception` of the
\* three calls returns success=False from inside the @transaction.atomic
\* function, so the atomic block exits normally and commits. An error raised
\* before the INSERT is sent (TypeError: the metadata cannot be encoded) leaves
\* the transaction healthy and the saved wallet is committed. An INSERT the
\* database rejects undoes that statement alone on sqlite3 (settings/base.py),
\* and makes PostgreSQL (settings/production.py) discard the transaction.
InsertErrors == {"TypeError", "DatabaseError"}
Backends == {"sqlite3", "postgresql"}

save_committed(raised, backend) == raised = "TypeError" \/ backend = "sqlite3"

except_Exception(w, saved, rows, raised, backend) ==
    Result(FALSE, raised, IF save_committed(raised, backend) THEN saved ELSE w, rows)

\* The three calls with an insert that raises
add_balance_raising(w, rows, t, amount, raised, backend) ==
    LET res == add_balance(w, rows, t, amount, None)
    IN  IF res.success THEN except_Exception(w, res.wallet, rows, raised, backend) ELSE res

deduct_balance_raising(w, rows, t, amount, skip_balance_check, raised, backend) ==
    LET res == deduct_balance(w, rows, t, amount, skip_balance_check)
    IN  IF res.success THEN except_Exception(w, res.wallet, rows, raised, backend) ELSE res

refund_balance_raising(w, rows, t, amount, raised, backend) ==
    LET res == refund_balance(w, rows, t, amount)
    IN  IF res.success THEN except_Exception(w, res.wallet, rows, raised, backend) ELSE res

\* set_wallet_limits: an argument left out (NULL) keeps the stored limit, a value
\* that is not positive clears it.
set_wallet_limits(w, daily_limit, monthly_limit) ==
    [w EXCEPT !.daily_limit = IF daily_limit = NULL THEN @
                              ELSE IF Val(daily_limit) > 0 THEN daily_limit ELSE NULL,
              !.monthly_limit = IF monthly_limit = NULL THEN @
                                ELSE IF Val(monthly_limit) > 0 THEN monthly_limit ELSE NULL]

activate_wallet(w) == [w EXCEPT !.is_active = TRUE]

deactivate_wallet(w) == [w EXCEPT !.is_active = FALSE]

----------------------------------------------------------------------------
(* Click: services/payment/click_service.py and the two webhook views *)

CLICK_SECRET_KEY == "k"

\* hashlib.md5(...).hexdigest(): a digest that tells any two of the model's
\* strings apart.
md5(str) == "md5:" \o str

\* float(amount) of the form parameter; Unparsable raises ValueError.
Unparsable == -1
AmountStrings == {"1", "1.0", "2", "x"}
float(str) ==
    CASE str = "1"   -> 1
      [] str = "1.0" -> 1
      [] str = "2"   -> 2
      [] OTHER       -> Unparsable

\* `if error and int(error) < 0` on the error parameter Click sends
int(str) ==
    CASE str = "0"  -> 0
      [] str = "-1" -> -1
      [] str = "1"  -> 1

ClickReportsError(error) == error \notin {None, ""} /\ int(error) < 0

\* verify_signature as it would be if it asked for a signature without
\* computing one
verify_signature_present(click_trans_id, service_id, merchant_trans_id, amount, action, sign_time, sign_string, merchant_prepare_id) ==
    sign_string # ""

\* ClickService.verify_signature; f"{None}" prints None.
verify_signature(click_trans_id, service_id, merchant_trans_id, amount, action, sign_time, sign_string, merchant_prepare_id) ==
    IF action = "0"
    THEN md5(click_trans_id \o service_id \o CLICK_SECRET_KEY \o merchant_trans_id
             \o amount \o action \o sign_time) = sign_string
    ELSE IF action = "1"
    THEN IF merchant_prepare_id \in {None, ""} THEN FALSE
         ELSE md5(click_trans_id \o service_id \o CLICK_SECRET_KEY \o merchant_trans_id
                  \o merchant_prepare_id \o amount \o action \o sign_time) = sign_string
    ELSE FALSE

\* ClickService.error_response / prepare_response / complete_response
click_error(code, note) == [error |-> code, error_note |-> note]
prepare_response(req, id) ==
    [error |-> 0, error_note |-> "Success", click_trans_id |-> req.click_trans_id,
     merchant_trans_id |-> req.merchant_trans_id, merchant_prepare_id |-> ToString(id)]
complete_response(req, id) ==
    [error |-> 0, error_note |-> "Success", click_trans_id |-> req.click_trans_id,
     merchant_trans_id |-> req.merchant_trans_id, merchant_confirm_id |-> ToString(id)]

\* Transaction.objects.get(reference_id=...): the row's key, or 0 for DoesNotExist.
ByReference(rows, ref) ==
    IF \E i \in DOMAIN rows : rows[i].reference_id = ref
    THEN CHOOSE i \in DOMAIN rows : rows[i].reference_id = ref
    ELSE 0

ClickPass == [error |-> 0, error_note |-> ""]

Out(resp, w, rows) == [resp |-> resp, wallet |-> w, rows |-> rows]

\* The shared checks as they would be without the comparison of the amounts
click_checks_any_amount(req, rows, merchant_prepare_id) ==
    IF ~verify_signature(req.click_trans_id, req.service_id, req.merchant_trans_id,
                         req.amount, req.action, req.sign_time, req.sign,
                         merchant_prepare_id)
    THEN click_error(-1, "Invalid signature")
    ELSE IF ClickReportsError(req.error)
    THEN click_error(-8, "Click error")
    ELSE IF ByReference(rows, req.merchant_trans_id) = 0
    THEN click_error(-6, "Transaction not found")
    ELSE ClickPass

\* The checks click_prepare and click_complete share, up to the amount check:
\* ClickPass when they pass, else the response.
click_checks(req, rows, merchant_prepare_id) ==
    IF ~verify_signature(req.click_trans_id, req.service_id, req.merchant_trans_id,
                         req.amount, req.action, req.sign_time, req.sign,
                         merchant_prepare_id)
    THEN click_error(-1, "Invalid signature")
    ELSE IF ClickReportsError(req.error)
    THEN click_error(-8, "Click error")
    ELSE IF ByReference(rows, req.merchant_trans_id) = 0
    THEN click_error(-6, "Transaction not found")
    ELSE IF float(req.amount) = Unparsable
    THEN click_error(-9, "Internal error: could not convert string to float: '"
                         \o req.amount \o "'")
    ELSE IF float(req.amount) # rows[ByReference(rows, req.merchant_trans_id)].amount
    THEN click_error(-2, "Incorrect amount")
    ELSE ClickPass

click_prepare(req, w, rows, t) ==
    LET failed == click_checks(req, rows, None)
        i == ByReference(rows, req.merchant_trans_id)
    IN  IF failed # ClickPass THEN Out(failed, w, rows)
        ELSE IF rows[i].status # "pending"
        THEN Out(click_error(-4, "Transaction already processed"), w, rows)
        ELSE Out(prepare_response(req, i), w,
                 [rows EXCEPT ![i].gateway_transaction_id = req.click_trans_id,
                              ![i].external_id = req.click_paydoc_id,
                              ![i].gateway = "click"])

click_complete(req, w, rows, t) ==
    LET failed == click_checks(req, rows, req.merchant_prepare_id)
        i == ByReference(rows, req.merchant_trans_id)
    IN  IF failed # ClickPass THEN Out(failed, w, rows)
        ELSE IF rows[i].status = "completed"
        THEN Out(complete_response(req, i), w, rows)
        ELSE IF rows[i].status = "cancelled"
        THEN Out(click_error(-9, "Transaction was cancelled"), w, rows)
        ELSE LET w2 == [w EXCEPT !.balance = @ + rows[i].amount,
                                 !.total_credited = @ + rows[i].amount]
             IN  Out(complete_response(req, i), w2,
                     [rows EXCEPT ![i].status = "completed",
                                  ![i].balance_after = Some(w2.balance),
                                  ![i].processed_at = t,
                                  ![i].gateway_transaction_id = req.click_trans_id,
                                  ![i].external_id = req.click_paydoc_id,
                                  ![i].gateway = "click"])

----------------------------------------------------------------------------
(* Payme: services/payment/payme_service.py and the JSON-RPC webhook view *)

PAYME_SECRET_KEY == "s"
TIYIN_PER_UZS == 100
MS_PER_S == 1000

\* base64.b64decode(...).decode() on the credentials the model sends;
\* DecodeError stands for binascii.Error / UnicodeDecodeError.
DecodeError == "<error>"
b64decode(str) ==
    CASE str = "UGF5Y29tOnM=" -> "Paycom:s"
      [] str = "UGF5Y29tOng=" -> "Paycom:x"
      [] str = "cw=="         -> "s"
      [] OTHER                -> DecodeError

\* verify_auth as it would be if it looked at the scheme alone
verify_auth_scheme_only(auth) == auth.scheme = "Basic "

\* PaymeService.verify_auth on the header scheme \o credentials
verify_auth(auth) ==
    IF auth.scheme \o auth.credentials = "" \/ auth.scheme # "Basic " THEN FALSE
    ELSE IF b64decode(auth.credentials) = DecodeError THEN FALSE
    ELSE b64decode(auth.credentials) = "Paycom:" \o PAYME_SECRET_KEY

\* PaymeService.tiyin_to_amount followed by float(trans.amount) != float(amount_uzs):
\* both sides are the nearest doubles of a number of hundredths, equal exactly
\* when the numbers of hundredths are.
tiyin_matches(amount, tiyin) == amount * TIYIN_PER_UZS = tiyin
amount_to_tiyin(amount) == amount * TIYIN_PER_UZS
timestamp_ms(t) == t * MS_PER_S

\* PaymeService.ERROR_CODES / STATES
INVALID_AMOUNT == -31001
TRANSACTION_NOT_FOUND == -31003
CANT_PERFORM_OPERATION == -31008
INVALID_ACCOUNT == -31050
PARSE_ERROR == -32700
METHOD_NOT_FOUND == -32601
INSUFFICIENT_PRIVILEGES == -32504
INTERNAL_ERROR == -32400
CREATED == 1
COMPLETED == 2
CANCELLED == -1
CANCELLED_AFTER_COMPLETE == -2

NoResult == [state |-> 0]
\* A numeric parameter the request does not carry
Missing == -1
\* PaymeService.error_response / success_response: id is None when the key is absent
payme_error(code, message, request_id) ==
    [error |-> code, message |-> message, result |-> NoResult, id |-> request_id]
payme_result(result, request_id) ==
    [error |-> 0, message |-> "", result |-> result, id |-> request_id]

\* Transaction.objects.get(external_id=..., gateway="payme"): the row's key, 0 for
\* DoesNotExist, Multiple for MultipleObjectsReturned.
Multiple == -1
ByExternal(rows, id) ==
    LET found == {i \in DOMAIN rows : rows[i].external_id = id /\ rows[i].gateway = "payme"}
    IN  IF found = {} THEN 0
        ELSE IF Cardinality(found) > 1 THEN Multiple
        ELSE CHOOSE i \in found : TRUE

state_map(status) ==
    CASE status = "pending"   -> CREATED
      [] status = "completed" -> COMPLETED
      [] status = "cancelled" -> CANCELLED
      [] status = "failed"    -> CANCELLED
      [] status = "refunded"  -> CANCELLED_AFTER_COMPLETE
      [] OTHER                -> 0

\* CheckPerformTransaction as it would be with the status tested before the amount
CheckPerformTransaction_status_first(req, w, rows) ==
    LET i == ByReference(rows, req.order_id)
    IN  IF req.order_id \in {None, ""} \/ i = 0
        THEN Out(payme_error(INVALID_ACCOUNT, "Invalid order_id", req.id), w, rows)
        ELSE IF rows[i].status # "pending"
        THEN Out(payme_error(CANT_PERFORM_OPERATION, "Transaction already processed", req.id),
                 w, rows)
        ELSE IF req.amount = Missing
        THEN Out(payme_error(INTERNAL_ERROR, "Internal error: float() argument", req.id), w, rows)
        ELSE IF ~tiyin_matches(rows[i].amount, req.amount)
        THEN Out(payme_error(INVALID_AMOUNT, "Amount mismatch", req.id), w, rows)
        ELSE Out(payme_result([allow |-> TRUE], req.id), w, rows)

CheckPerformTransaction(req, w, rows) ==
    LET i == ByReference(rows, req.order_id)
    IN  IF req.order_id \in {None, ""} \/ i = 0
        THEN Out(payme_error(INVALID_ACCOUNT, "Invalid order_id", req.id), w, rows)
        ELSE IF req.amount = Missing
        THEN Out(payme_error(INTERNAL_ERROR, "Internal error: float() argument", req.id), w, rows)
        ELSE IF ~tiyin_matches(rows[i].amount, req.amount)
        THEN Out(payme_error(INVALID_AMOUNT, "Amount mismatch", req.id), w, rows)
        ELSE IF rows[i].status # "pending"
        THEN Out(payme_error(CANT_PERFORM_OPERATION, "Transaction already processed", req.id),
                 w, rows)
        ELSE Out(payme_result([allow |-> TRUE], req.id), w, rows)

CreateTransaction(req, w, rows, t) ==
    LET i == ByReference(rows, req.order_id)
    IN  IF req.order_id \in {None, ""} \/ i = 0
        THEN Out(payme_error(INVALID_ACCOUNT, "Invalid order_id", req.id), w, rows)
        ELSE IF rows[i].external_id = req.trans_id
        THEN Out(payme_result([create_time |-> timestamp_ms(rows[i].created_at),
                               transaction |-> ToString(i), state |-> CREATED], req.id),
                 w, rows)
        ELSE IF req.amount = Missing
        THEN Out(payme_error(INTERNAL_ERROR, "Internal error: float() argument", req.id), w, rows)
        ELSE IF ~tiyin_matches(rows[i].amount, req.amount)
        THEN Out(payme_error(INVALID_AMOUNT, "Amount mismatch", req.id), w, rows)
        ELSE IF rows[i].status # "pending"
        THEN Out(payme_error(CANT_PERFORM_OPERATION, "Transaction already processed", req.id),
                 w, rows)
        ELSE Out(payme_result([create_time |-> timestamp_ms(rows[i].created_at),
                               transaction |-> ToString(i), state |-> CREATED], req.id),
                 w,
                 [rows EXCEPT ![i].external_id = req.trans_id,
                              ![i].gateway = "payme"])

PerformTransaction(req, w, rows, t) ==
    LET i == ByExternal(rows, req.trans_id)
    IN  IF i = 0
        THEN Out(payme_error(TRANSACTION_NOT_FOUND, "Transaction not found", req.id), w, rows)
        ELSE IF i = Multiple
        THEN Out(payme_error(INTERNAL_ERROR, "Internal error: get() returned more than one",
                             req.id), w, rows)
        ELSE IF rows[i].status = "completed"
        THEN Out(payme_result([transaction |-> ToString(i),
                               perform_time |-> timestamp_ms(rows[i].processed_at),
                               state |-> COMPLETED], req.id), w, rows)
        ELSE IF rows[i].status \in {"cancelled", "failed"}
        THEN Out(payme_error(CANT_PERFORM_OPERATION, "Transaction is closed", req.id), w, rows)
        ELSE LET w2 == [w EXCEPT !.balance = @ + rows[i].amount,
                                 !.total_credited = @ + rows[i].amount]
             IN  Out(payme_result([transaction |-> ToString(i),
                                   perform_time |-> timestamp_ms(t),
                                   state |-> COMPLETED], req.id),
                     w2,
                     [rows EXCEPT ![i].status = "completed",
                                  ![i].balance_after = Some(w2.balance),
                                  ![i].processed_at = t])

\* `if trans.status == "completed"` as it would be if it asked whether the
\* transaction was ever performed
cancel_refunds_performed(row) == row.processed_at # 0

\* `if trans.status == "completed"`: the cancellation takes the credit back
cancel_refunds(row) == row.status = "completed"

CancelTransaction(req, w, rows, t) ==
    LET i == ByExternal(rows, req.trans_id)
    IN  IF i = 0
        THEN Out(payme_error(TRANSACTION_NOT_FOUND, "Transaction not found", req.id), w, rows)
        ELSE IF i = Multiple
        THEN Out(payme_error(INTERNAL_ERROR, "Internal error: get() returned more than one",
                             req.id), w, rows)
        ELSE IF cancel_refunds(rows[i])
        THEN Out(payme_result([transaction |-> ToString(i),
                               cancel_time |-> timestamp_ms(t),
                               state |-> CANCELLED_AFTER_COMPLETE], req.id),
                 [w EXCEPT !.balance = @ - rows[i].amount],
                 [rows EXCEPT ![i].status = "refunded",
                              ![i].failed_reason = "Payme refund"])
        ELSE Out(payme_result([transaction |-> ToString(i),
                               cancel_time |-> timestamp_ms(t),
                               state |-> CANCELLED], req.id),
                 w,
                 [rows EXCEPT ![i].status = "cancelled",
                              ![i].failed_reason = "Payme cancellation"])

\* The row as CheckTransaction and GetStatement report it
check_row(rows, i) ==
    [create_time |-> timestamp_ms(rows[i].created_at),
     perform_time |-> timestamp_ms(rows[i].processed_at),
     transaction |-> ToString(i),
     state |-> state_map(rows[i].status)]

CheckTransaction(req, w, rows) ==
    LET i == ByExternal(rows, req.trans_id)
    IN  IF i = 0
        THEN Out(payme_error(TRANSACTION_NOT_FOUND, "Transaction not found", req.id), w, rows)
        ELSE IF i = Multiple
        THEN Out(payme_error(INTERNAL_ERROR, "Internal error: get() returned more than one",
                             req.id), w, rows)
        ELSE Out(payme_result(check_row(rows, i), req.id), w, rows)

\* GetStatement: the keys of the rows it lists (order_by created_at, ties by key)
statement_rows(rows, from, to) ==
    {i \in DOMAIN rows : /\ rows[i].gateway = "payme"
                         /\ timestamp_ms(rows[i].created_at) >= from
                         /\ timestamp_ms(rows[i].created_at) <= to
                         /\ rows[i].external_id \notin {None, ""}}

GetStatement(req, w, rows) ==
    IF req.from = Missing \/ req.to = Missing
    THEN Out(payme_error(INTERNAL_ERROR, "Internal error: unsupported operand", req.id), w, rows)
    ELSE Out(payme_result([transactions |->
                              {[id |-> rows[i].external_id, row |-> check_row(rows, i)]
                                 : i \in statement_rows(rows, req.from, req.to)},
                           state |-> 0], req.id),
             w, rows)

payme_webhook(req, w, rows, t) ==
    IF ~verify_auth(req.auth)
    THEN Out(payme_error(INSUFFICIENT_PRIVILEGES, "Insufficient privileges", None), w, rows)
    ELSE IF ~req.json
    THEN Out(payme_error(PARSE_ERROR, "JSON parsing error", None), w, rows)
    ELSE CASE req.method = "CheckPerformTransaction" -> CheckPerformTransaction(req, w, rows)
           [] req.method = "CreateTransaction" -> CreateTransaction(req, w, rows, t)
           [] req.method = "PerformTransaction" -> PerformTransaction(req, w, rows, t)
           [] req.method = "CancelTransaction" -> CancelTransaction(req, w, rows, t)
           [] req.method = "CheckTransaction" -> CheckTransaction(req, w, rows)
           [] req.method = "GetStatement" -> GetStatement(req, w, rows)
           [] OTHER -> Out(payme_error(METHOD_NOT_FOUND, "Method not found", req.id), w, rows)

----------------------------------------------------------------------------
(* Initial state *)

\* get_or_create_wallet on a new user: the wallet starts with the configured
\* initial balance, booked as a bonus.
get_or_create_wallet(initial) ==
    [ wallet |-> [ balance |-> initial,
                   total_credited |-> 0,
                   total_debited |-> 0,
                   is_active |-> TRUE,
                   daily_limit |-> NULL,
                   monthly_limit |-> NULL ],
      rows |-> create_transaction(<<>>, 1, "bonus", initial, Some(0), Some(initial),
                                  "completed", None) ]

RECURSIVE Fixtures(_, _, _)
Fixtures(n, amounts, balance) ==
    IF n = 0 THEN get_or_create_wallet(balance).rows
    ELSE LET rows == Fixtures(n - 1, amounts, balance)
         IN  Append(rows, PendingRow(rows, 1, amounts[n], balance))

Workers == 1..NWorkers
NoLoad == [amount |-> 0, obj |-> get_or_create_wallet(0).wallet, error |-> ""]

NoCall == [op |-> "none", error |-> 0]

Init ==
    /\ initial_balance \in 0..MaxInitialBalance
    /\ wallet = get_or_create_wallet(initial_balance).wallet
    /\ \E amounts \in [1..NPending -> Amounts] :
           transactions = Fixtures(NPending, amounts, initial_balance)
    /\ now = 1
    /\ last = NoCall
    /\ done = {}
    /\ pc = [w \in Workers |-> "idle"]
    /\ loc = [w \in Workers |-> NoLoad]

----------------------------------------------------------------------------
(* Ledger calls, each one whole call *)

\* The call and the error code of its response (0: none)
Called(op, error) == [op |-> op, error |-> error]

Bounded(w) ==
    w.balance <= MaxBalance /\ w.total_credited <= MaxTotal /\ w.total_debited <= MaxTotal

Commit(op, res) ==
    /\ Bounded(res.wallet)
    /\ Len(res.rows) <= MaxRows
    /\ wallet' = res.wallet
    /\ transactions' = res.rows
    /\ last' = Called(op, IF res.success THEN 0 ELSE 1)
    /\ UNCHANGED <<initial_balance, now, done, pc, loc>>

AddBalance ==
    \E amount \in 0..MaxAmount :
        Commit("add_balance", add_balance(wallet, transactions, now, amount, None))

DeductBalance ==
    \E amount \in 0..MaxAmount :
        Commit("deduct_balance", deduct_balance(wallet, transactions, now, amount, FALSE))

RefundBalance ==
    \E amount \in 0..MaxAmount :
        Commit("refund_balance", refund_balance(wallet, transactions, now, amount))

\* deduct_balance with either value of skip_balance_check
DeductBalanceAny ==
    \E amount \in 0..MaxAmount, skip_balance_check \in BOOLEAN :
        Commit("deduct_balance",
               deduct_balance(wallet, transactions, now, amount, skip_balance_check))

\* The three calls when the insert of the Transaction row raises
AddBalanceRaising ==
    \E amount \in Amounts, raised \in InsertErrors, backend \in Backends :
        Commit("add_balance",
               add_balance_raising(wallet, transactions, now, amount, raised, backend))

DeductBalanceRaising ==
    \E amount \in Amounts, skip_balance_check \in BOOLEAN,
       raised \in InsertErrors, backend \in Backends :
        Commit("deduct_balance",
               deduct_balance_raising(wallet, transactions, now, amount,
                                      skip_balance_check, raised, backend))

RefundBalanceRaising ==
    \E amount \in Amounts, raised \in InsertErrors, backend \in Backends :
        Commit("refund_balance",
               refund_balance_raising(wallet, transactions, now, amount, raised, backend))

\* Wallet administration
Limits == {NULL} \cup {Some(v) : v \in 0..MaxLimit}

SetWalletLimits ==
    \E daily_limit \in Limits, monthly_limit \in Limits :
        /\ wallet' = set_wallet_limits(wallet, daily_limit, monthly_limit)
        /\ last' = Called("set_wallet_limits", 0)
        /\ UNCHANGED <<transactions, initial_balance, now, done, pc, loc>>

ActivateWallet ==
    /\ wallet' = activate_wallet(wallet)
    /\ last' = Called("activate_wallet", 0)
    /\ UNCHANGED <<transactions, initial_balance, now, done, pc, loc>>

DeactivateWallet ==
    /\ wallet' = deactivate_wallet(wallet)
    /\ last' = Called("deactivate_wallet", 0)
    /\ UNCHANGED <<transactions, initial_balance, now, done, pc, loc>>

Tick ==
    /\ now < MaxTime
    /\ now' = now + 1
    /\ UNCHANGED <<wallet, transactions, initial_balance, last, done, pc, loc>>

----------------------------------------------------------------------------
(* Ledger calls of concurrent workers: no deduct_balance takes a lock on the   *)
(* wallet row (no select_for_update, no F() expression), so a call is two      *)
(* steps: it loads the wallet and runs its checks, and later it saves the      *)
(* object it has loaded and inserts the debit row.                             *)

DeductLoad(w) ==
    /\ pc[w] = "idle"
    /\ \E amount \in 0..MaxAmount :
        LET err == deduct_check(wallet, transactions, now, amount, FALSE)
        IN  /\ pc' = [pc EXCEPT ![w] = IF err = "" THEN "loaded" ELSE "done"]
            /\ loc' = [loc EXCEPT ![w] = [amount |-> amount, obj |-> wallet, error |-> err]]
    /\ UNCHANGED <<wallet, transactions, initial_balance, now, last, done>>

DeductSave(w) ==
    /\ pc[w] = "loaded"
    /\ LET res == deduct_save(wallet, loc[w].obj, transactions, now, loc[w].amount)
       IN  /\ wallet' = res.wallet
           /\ transactions' = res.rows
    /\ pc' = [pc EXCEPT ![w] = "done"]
    /\ UNCHANGED <<initial_balance, now, last, done, loc>>

----------------------------------------------------------------------------
(* Bot: bot/handlers/media.py process_media_file and the bot's own wallet      *)
(* service, services/wallet_service.py                                         *)

FileIds == {"f1", "f2"}
\* str(uuid.uuid4())[:8]
Uuids == {"u1", "u2"}

\* f"transcription_{file_id}_{timestamp}_{str(uuid.uuid4())[:8]}"
unique_ref(file_id, t, uuid) ==
    "transcription_" \o file_id \o "_" \o ToString(t) \o "_" \o uuid

\* Transaction.objects.filter(reference_id=..., user=user, status='completed').first()
CompletedByReference(rows, reference_id) ==
    { i \in DOMAIN rows : rows[i].reference_id = reference_id /\ rows[i].status = "completed" }

\* The bot's deduct_balance: no is_active test and no limits, a reference_id that
\* already has a completed transaction is refused, and the row is created
\* without processed_at.
bot_deduct_balance(w, rows, t, amount, reference_id, skip_balance_check) ==
    IF amount <= 0 THEN Result(FALSE, "Amount must be positive", w, rows)
    ELSE IF reference_id # None /\ CompletedByReference(rows, reference_id) # {}
         THEN Result(FALSE, "Transaction already processed", w, rows)
    ELSE IF ~skip_balance_check /\ w.balance < amount
         THEN Result(FALSE, "Insufficient balance", w, rows)
    ELSE LET w2 == [w EXCEPT !.balance = @ - amount, !.total_debited = @ + amount]
             row == NewRow(rows, t, "debit", amount, Some(w.balance), Some(w2.balance),
                           "completed", None)
         IN  Result(TRUE, "", w2,
                    Append(rows, [row EXCEPT !.reference_id =
                                                 IF reference_id = None THEN @ ELSE reference_id,
                                             !.processed_at = 0]))

\* process_media_file for one media message: balance check, download and
\* transcription, then the reference id and the deduction. transcribed is
\* whether the service returned a text, uuid the value uuid4 draws.
process_media_file(w, rows, t, file_id, total_cost, transcribed, uuid) ==
    IF ~(w.balance >= total_cost) THEN Result(FALSE, "Insufficient balance", w, rows)
    ELSE IF ~transcribed THEN Result(FALSE, "Transcription Failed", w, rows)
    ELSE bot_deduct_balance(w, rows, t, total_cost, unique_ref(file_id, t, uuid), FALSE)

\* A media message, sent for the first time or sent again
ProcessMediaFile ==
    \E file_id \in FileIds, total_cost \in Amounts, transcribed \in BOOLEAN, uuid \in Uuids :
        Commit("process_media_file",
               process_media_file(wallet, transactions, now, file_id, total_cost,
                                  transcribed, uuid))

----------------------------------------------------------------------------
(* Web front end: django_admin/webapp/views.py upload_file *)

\* The paid upload: balance check on the loaded wallet, the transcription, then
\* wallet.save() of the debited object. transcribed is whether the service
\* returned a text.
upload_file(w, t, total_cost, transcribed) ==
    IF w.balance < total_cost THEN Out([status |-> 400, error |-> "Insufficient balance"], w, <<>>)
    ELSE IF ~transcribed THEN Out([status |-> 500, error |-> "Transcription failed"], w, <<>>)
    ELSE Out([status |-> 200, error |-> ""],
             [w EXCEPT !.balance = @ - total_cost,
                       !.total_debited = @ + total_cost],
             <<>>)

UploadFile ==
    \E total_cost \in Amounts, transcribed \in BOOLEAN :
        LET out == upload_file(wallet, now, total_cost, transcribed)
        IN  /\ Bounded(out.wallet)
            /\ wallet' = out.wallet
            /\ last' = Called("upload_file", IF out.resp.status = 200 THEN 0 ELSE out.resp.status)
            /\ UNCHANGED <<transactions, initial_balance, now, done, pc, loc>>

----------------------------------------------------------------------------
(* The gateways' requests *)

\* The signature Click computes for a request (the tests' generate_click_signature)
click_signature(req) ==
    IF req.action = "1" /\ req.merchant_prepare_id \notin {None, ""}
    THEN md5(req.click_trans_id \o req.service_id \o CLICK_SECRET_KEY \o req.merchant_trans_id
             \o req.merchant_prepare_id \o req.amount \o req.action \o req.sign_time)
    ELSE md5(req.click_trans_id \o req.service_id \o CLICK_SECRET_KEY \o req.merchant_trans_id
             \o req.amount \o req.action \o req.sign_time)

\* The keys of the pending top-ups of the initial state; "r0" is no order
Orders == {i \in 1..NPending + 1 : Fixtures(NPending, [n \in 1..NPending |-> 1], 0)[i].status
                                      = "pending"}
OrderIds == {reference_id_default(i) : i \in Orders} \cup {"r0"}
PrepareIds == {ToString(i) : i \in Orders}

ClickFields(action) ==
    [ click_trans_id : {"c1"}, service_id : {"svc"}, click_paydoc_id : {"d1"},
      merchant_trans_id : OrderIds,
      merchant_prepare_id : IF action = "1" THEN PrepareIds ELSE {None},
      amount : {"1", "2"}, action : {action}, error : {"0"}, sign_time : {"t"},
      sign : {""} ]

\* The requests Click sends, each with the signature Click computes for it
ClickRequests(action) == {[f EXCEPT !.sign = click_signature(f)] : f \in ClickFields(action)}

\* The fields the signature covers, and another value for each
SignedFields(action) ==
    {"click_trans_id", "service_id", "merchant_trans_id", "amount", "action", "sign_time"}
        \cup (IF action = "1" THEN {"merchant_prepare_id"} ELSE {})

OtherValues(field) ==
    CASE field = "click_trans_id"      -> {"c2"}
      [] field = "service_id"          -> {"svd"}
      [] field = "merchant_trans_id"   -> OrderIds
      [] field = "amount"              -> AmountStrings
      [] field = "action"              -> {"0", "1", "2"}
      [] field = "sign_time"           -> {"u"}
      [] field = "merchant_prepare_id" -> PrepareIds \cup {"0", ""}

\* A request of Click with one signed field changed and the signature kept
Tampered(action) ==
    { [r EXCEPT ![field] = v] :
        <<r, field, v>> \in
            { <<r, field, v>> \in ClickRequests(action) \X SignedFields(action)
                                  \X (AmountStrings \cup OrderIds \cup PrepareIds
                                      \cup {"c2", "svd", "0", "1", "2", "u", ""}) :
                v \in OtherValues(field) /\ v # r[field] } }

\* A request with a signature that is not Click's
Forged(action) == {[r EXCEPT !.sign = v] : r \in ClickRequests(action), v \in {"", "sig"}}

AnyClickRequests(action) == ClickRequests(action) \cup Tampered(action) \cup Forged(action)

\* The requests of Click itself, and one of them tampered with and forged in
\* every way
ClickProbes(action) ==
    LET r == CHOOSE q \in ClickRequests(action) :
                 q.merchant_trans_id # "r0" /\ q.amount = "1"
    IN  ClickRequests(action)
        \cup {q \in Tampered(action) : \E field \in SignedFields(action) :
                                           q = [r EXCEPT ![field] = q[field]]}
        \cup {q \in Forged(action) : q = [r EXCEPT !.sign = q.sign]}

GoodAuth == [scheme |-> "Basic ", credentials |-> "UGF5Y29tOnM="]
\* Wrong secret, not Paycom:<secret>, not base64, wrong scheme, no header
BadAuth ==
    { [scheme |-> "Basic ", credentials |-> "UGF5Y29tOng="],
      [scheme |-> "Basic ", credentials |-> "cw=="],
      [scheme |-> "Basic ", credentials |-> "!"],
      [scheme |-> "Bearer ", credentials |-> "UGF5Y29tOnM="],
      [scheme |-> "", credentials |-> ""] }
AuthHeaders == {GoodAuth} \cup BadAuth

PaymeIds == {"p1", "p2"}
Tiyins == {amount_to_tiyin(a) : a \in Amounts}
Times == {timestamp_ms(t) : t \in 0..MaxTime + 1}

PaymeReq(auth, method, trans_id, order_id, amount, from, to) ==
    [ auth |-> auth, json |-> TRUE, method |-> method, id |-> "7", trans_id |-> trans_id,
      order_id |-> order_id, amount |-> amount, from |-> from, to |-> to ]

PaymeRequests(method, auths) ==
    CASE method = "CheckPerformTransaction" ->
            { PaymeReq(a, method, None, o, m, Missing, Missing) :
                a \in auths, o \in OrderIds, m \in Tiyins }
      [] method = "CreateTransaction" ->
            { PaymeReq(a, method, p, o, m, Missing, Missing) :
                a \in auths, p \in PaymeIds, o \in OrderIds, m \in Tiyins }
      [] method = "GetStatement" ->
            { PaymeReq(a, method, None, None, Missing, f, t) :
                a \in auths, f \in Times, t \in Times }
      [] OTHER ->
            { PaymeReq(a, method, p, None, Missing, Missing, Missing) :
                a \in auths, p \in PaymeIds }

Methods == {"CheckPerformTransaction", "CreateTransaction", "PerformTransaction",
            "CancelTransaction", "CheckTransaction", "GetStatement", "Unknown"}

\* Every request the model sends to the Payme endpoint: any method, any header,
\* a body that parses or not
AnyPaymeRequests ==
    UNION { { [r EXCEPT !.json = j] : r \in PaymeRequests(m, AuthHeaders), j \in BOOLEAN }
            : m \in Methods }

\* The requests of Payme itself, and for each method one request under each
\* other header and one with a body that does not parse
PaymeProbes ==
    UNION { LET r == CHOOSE q \in PaymeRequests(m, {GoodAuth}) : TRUE
            IN  PaymeRequests(m, {GoodAuth})
                \cup {[r EXCEPT !.auth = a] : a \in BadAuth}
                \cup {[r EXCEPT !.json = FALSE]}
            : m \in Methods }

----------------------------------------------------------------------------
(* Webhook calls, each one whole request *)

\* What a call leaves behind: the tables, the response, and the history of the
\* payments the gateway was told had gone through.
Served(op, req, resp) == [op |-> op, req |-> req, resp |-> resp]

Serve(op, req, out, succeeded) ==
    /\ Bounded(out.wallet)
    /\ wallet' = out.wallet
    /\ transactions' = out.rows
    /\ last' = Called(op, out.resp.error)
    /\ done' = IF succeeded THEN done \cup {Served(op, req, out.resp)} ELSE done
    /\ UNCHANGED <<initial_balance, now, pc, loc>>

ClickPrepare ==
    \E req \in ClickRequests("0") :
        Serve("click_prepare", req, click_prepare(req, wallet, transactions, now), FALSE)

ClickComplete ==
    \E req \in ClickRequests("1") :
        LET out == click_complete(req, wallet, transactions, now)
        IN  Serve("click_complete", req, out, out.resp.error = 0)

Payme(method) ==
    \E req \in PaymeRequests(method, {GoodAuth}) :
        LET out == payme_webhook(req, wallet, transactions, now)
        IN  Serve(method, req, out, method = "PerformTransaction" /\ out.resp.error = 0)

PaymeCreate == Payme("CreateTransaction")
PaymePerform == Payme("PerformTransaction")
PaymeCancel == Payme("CancelTransaction")

\* The same endpoints under requests of any shape
ClickPrepareAny ==
    \E req \in ClickProbes("0") :
        Serve("click_prepare", req, click_prepare(req, wallet, transactions, now), FALSE)

ClickCompleteAny ==
    \E req \in ClickProbes("1") :
        LET out == click_complete(req, wallet, transactions, now)
        IN  Serve("click_complete", req, out, out.resp.error = 0)

PaymeAny ==
    \E req \in PaymeProbes :
        LET out == payme_webhook(req, wallet, transactions, now)
        IN  Serve(req.method, req, out, req.method = "PerformTransaction" /\ out.resp.error = 0)

----------------------------------------------------------------------------
(* Webhooks of concurrent workers. PerformTransaction, CancelTransaction and   *)
(* click_complete read the transaction with a plain get() and test its status  *)
(* before they enter the atomic block; inside it only the wallet is read with  *)
(* select_for_update, and trans.save() writes every column of the object that  *)
(* was read. A call is two steps: it reads the transaction, and later it runs  *)
(* on the object it has read and on the wallet as it is then.                  *)

RacingMethods == {"PerformTransaction", "CancelTransaction", "click_complete"}

RacingRequests(method) ==
    IF method = "click_complete" THEN ClickRequests("1")
    ELSE PaymeRequests(method, {GoodAuth})

\* Transaction.objects.get(...) of the three handlers
racing_get(method, req, rows) ==
    IF method = "click_complete" THEN ByReference(rows, req.merchant_trans_id)
    ELSE ByExternal(rows, req.trans_id)

racing_handler(method, req, w, rows, t) ==
    IF method = "click_complete" THEN click_complete(req, w, rows, t)
    ELSE payme_webhook(req, w, rows, t)

WebhookRead(w) ==
    /\ pc[w] = "idle"
    /\ \E method \in RacingMethods :
         \E req \in RacingRequests(method) :
            LET i == racing_get(method, req, transactions)
            IN  /\ i \in Rows
                /\ loc' = [loc EXCEPT ![w] = [method |-> method, req |-> req, i |-> i,
                                              trans |-> transactions[i]]]
    /\ pc' = [pc EXCEPT ![w] = "loaded"]
    /\ UNCHANGED <<wallet, transactions, initial_balance, now, last, done>>

WebhookWrite(w) ==
    /\ pc[w] = "loaded"
    /\ LET i == loc[w].i
           out == racing_handler(loc[w].method, loc[w].req, wallet,
                                 [transactions EXCEPT ![i] = loc[w].trans], now)
       IN  /\ Bounded(out.wallet)
           /\ wallet' = out.wallet
           /\ transactions' = IF out.rows[i] = loc[w].trans THEN transactions
                              ELSE [transactions EXCEPT ![i] = out.rows[i]]
           /\ last' = Called(loc[w].method, out.resp.error)
    /\ pc' = [pc EXCEPT ![w] = "done"]
    /\ UNCHANGED <<initial_balance, now, done, loc>>

----------------------------------------------------------------------------
(* Administration of transactions: TransactionViewSet.complete / fail and the  *)
(* model methods they call                                                     *)

\* Transaction.complete(): the status and processed_at, no wallet is touched
Transaction_complete(row, t) == [row EXCEPT !.status = "completed", !.processed_at = t]

\* Transaction.fail(reason)
Transaction_fail(row, t, reason) ==
    [row EXCEPT !.status = "failed", !.failed_reason = reason, !.processed_at = t]

\* The two admin actions: HTTP 400 unless the transaction is pending
admin_complete(rows, i, t) ==
    IF rows[i].status # "pending" THEN [status |-> 400, rows |-> rows]
    ELSE [status |-> 200, rows |-> [rows EXCEPT ![i] = Transaction_complete(rows[i], t)]]

admin_fail(rows, i, t, reason) ==
    IF rows[i].status # "pending" THEN [status |-> 400, rows |-> rows]
    ELSE [status |-> 200, rows |-> [rows EXCEPT ![i] = Transaction_fail(rows[i], t, reason)]]

Answered(op, res) ==
    /\ transactions' = res.rows
    /\ last' = Called(op, IF res.status = 200 THEN 0 ELSE res.status)
    /\ UNCHANGED <<wallet, initial_balance, now, done, pc, loc>>

AdminComplete ==
    \E i \in Rows : Answered("complete", admin_complete(transactions, i, now))

AdminFail ==
    \E i \in Rows : Answered("fail", admin_fail(transactions, i, now, "Failed by admin"))

----------------------------------------------------------------------------
(* Specifications *)

\* Two workers, each in one webhook call, after Payme has created its
\* transactions
NextRace == PaymeCreate \/ (\E w \in Workers : WebhookRead(w) \/ WebhookWrite(w)) \/ Tick

SpecRace == Init /\ [][NextRace]_vars

\* The Payme methods that write, with the admin's complete and fail
NextAdmin ==
    \/ PaymeCreate \/ PaymePerform \/ PaymeCancel
    \/ AdminComplete \/ AdminFail
    \/ Tick

SpecAdmin == Init /\ [][NextAdmin]_vars


\* The wallet service alone
NextLedger == AddBalance \/ DeductBalance \/ RefundBalance \/ Tick

SpecLedger == Init /\ [][NextLedger]_vars

\* The wallet service with its administration (limits, activation), both values
\* of skip_balance_check and inserts that raise
AccountCall ==
    \/ AddBalance \/ DeductBalanceAny \/ RefundBalance
    \/ AddBalanceRaising \/ DeductBalanceRaising \/ RefundBalanceRaising

NextAccount ==
    \/ AccountCall /\ Len(transactions') <= MaxMixedRows /\ wallet'.balance >= -MaxAmount
    \/ SetWalletLimits \/ ActivateWallet \/ DeactivateWallet

SpecAccount == Init /\ [][NextAccount]_vars

\* Two workers, each in one deduct_balance call
NextConcurrent == (\E w \in Workers : DeductLoad(w) \/ DeductSave(w)) \/ Tick

SpecConcurrent == Init /\ [][NextConcurrent]_vars

\* Two workers in deduct_balance calls on a wallet whose limits are administered
NextLimits == (\E w \in Workers : DeductLoad(w) \/ DeductSave(w)) \/ SetWalletLimits \/ Tick

SpecLimits == Init /\ [][NextLimits]_vars

\* The bot's paid transcriptions, with top-ups by add_balance
NextBot == ProcessMediaFile \/ AddBalance \/ Tick

SpecBot == Init /\ [][NextBot]_vars

\* The two webhook endpoints under requests of any shape
NextGateway == ClickPrepareAny \/ ClickCompleteAny \/ PaymeAny \/ Tick

SpecGateway == Init /\ [][NextGateway]_vars

\* Every operation that writes the wallet or a transaction, one call at a time:
\* the ledger calls, the web upload and both gateways
LedgerCall == AddBalance \/ DeductBalance \/ RefundBalance

Next ==
    \/ LedgerCall /\ Len(transactions') <= MaxMixedRows
    \/ UploadFile
    \/ ClickPrepare \/ ClickComplete
    \/ PaymeCreate \/ PaymePerform \/ PaymeCancel

Spec == Init /\ [][Next]_vars

----------------------------------------------------------------------------
(* The wallet service *)

\* C1: after every add_balance, deduct_balance (no skip_balance_check) and
\* refund_balance call on the wallet, balance = initial balance + total_credited
\* - total_debited, and balance >= 0.
C1_BalanceEquation ==
    /\ wallet.balance = initial_balance + wallet.total_credited - wallet.total_debited
    /\ wallet.balance >= 0

\* A credit, a debit and a refund have been booked, and a deduct_balance has
\* just been refused on an empty wallet.
C1_Witness ==
    /\ \A type \in {"credit", "debit", "refund"} :
           \E i \in Rows : transactions[i].type = type /\ transactions[i].status = "completed"
    /\ wallet.balance = 0
    /\ last = Called("deduct_balance", 1)

\* C2: two concurrent deduct_balance calls with a1 <= balance, a2 <= balance and
\* a1 + a2 > balance: once both have returned, exactly one has succeeded, the
\* other has failed with the insufficient-balance error, and the balance is the
\* initial balance minus the amount of the one that succeeded.
C2_ExactlyOneDeduct ==
    LET a1 == loc[1].amount
        a2 == loc[2].amount
    IN  (/\ pc[1] = "done" /\ pc[2] = "done"
         /\ a1 >= 1 /\ a2 >= 1
         /\ a1 <= initial_balance /\ a2 <= initial_balance
         /\ a1 + a2 > initial_balance)
        => \E w \in Workers :
               /\ loc[w].error = ""
               /\ loc[3 - w].error = "Insufficient balance"
               /\ wallet.balance = initial_balance - loc[w].amount

----------------------------------------------------------------------------
(* Replays at the gateways *)

\* C3: after a Click Complete has succeeded for a transaction, any later identical
\* Complete request returns the same success response (error 0,
\* merchant_confirm_id = the transaction id) and leaves the wallet and the
\* transaction row unchanged.
C3_ClickCompleteReplay ==
    \A d \in done :
        d.op = "click_complete" =>
            /\ d.resp.error = 0
            /\ d.resp.merchant_confirm_id =
                   ToString(ByReference(transactions, d.req.merchant_trans_id))
            /\ click_complete(d.req, wallet, transactions, now)
                   = Out(d.resp, wallet, transactions)

\* C4: after a Payme PerformTransaction has succeeded for an id, any later
\* PerformTransaction with the same id returns the same result (same transaction,
\* same perform_time, state 2) and leaves the wallet and the transaction row
\* unchanged.
C4_PerformReplay ==
    \A d \in done :
        d.op = "PerformTransaction" =>
            /\ d.resp.result.state = COMPLETED
            /\ payme_webhook(d.req, wallet, transactions, now)
                   = Out(d.resp, wallet, transactions)

CancelRequest(id) ==
    PaymeReq(GoodAuth, "CancelTransaction", id, None, Missing, Missing, Missing)

\* n CancelTransaction calls with the same id, one after the other
RECURSIVE Cancels(_, _, _, _)
Cancels(n, id, w, rows) ==
    IF n = 0 THEN Out(payme_result(NoResult, None), w, rows)
    ELSE LET before == Cancels(n - 1, id, w, rows)
         IN  payme_webhook(CancelRequest(id), before.wallet, before.rows, now)

\* C5: for a Payme transaction that was performed (credit A), any number n >= 1 of
\* sequential CancelTransaction calls with its id lowers the balance by exactly A
\* in total: the first call debits A and sets status refunded, every later call
\* debits nothing.
C5_CancelDebitsOnce ==
    \A id \in PaymeIds :
        LET i == ByExternal(transactions, id)
        IN  (i \in Rows /\ transactions[i].status = "completed") =>
                /\ Cancels(1, id, wallet, transactions).rows[i].status = "refunded"
                /\ \A n \in 1..MaxCancels :
                       Cancels(n, id, wallet, transactions).wallet
                           = [wallet EXCEPT !.balance = @ - transactions[i].amount]

\* A transaction that was performed once and has then been cancelled twice: the
\* wallet is back at its initial balance.
C5_Witness ==
    \E i \in Rows :
        /\ transactions[i].gateway = "payme"
        /\ transactions[i].processed_at # 0
        /\ transactions[i].status = "cancelled"
        /\ wallet.total_credited = transactions[i].amount
        /\ wallet.balance = initial_balance
        /\ last = Called("CancelTransaction", 0)

\* C6: a second CancelTransaction on a transaction that is already cancelled
\* returns state -1, on one that is already refunded returns state -2, and in both
\* cases the transaction's status and the wallet are left unchanged.
C6_CancelIdempotent ==
    \A id \in PaymeIds :
        LET i == ByExternal(transactions, id)
            out == payme_webhook(CancelRequest(id), wallet, transactions, now)
        IN  (i \in Rows /\ transactions[i].status \in {"cancelled", "refunded"}) =>
                /\ out.resp.result.state = state_map(transactions[i].status)
                /\ out.rows[i].status = transactions[i].status
                /\ out.wallet = wallet

----------------------------------------------------------------------------
(* Requests the gateways did not send *)

PaymeUnauthorized == payme_error(INSUFFICIENT_PRIVILEGES, "Insufficient privileges", None)

\* C7: for every Payme method (unknown methods and unparsable bodies included) a
\* request whose Authorization header is missing or does not decode to
\* "Paycom:" + the secret receives error -32504, and neither table is touched.
C7_Unauthorized ==
    \A req \in AnyPaymeRequests :
        req.auth \in BadAuth =>
            payme_webhook(req, wallet, transactions, now)
                = Out(PaymeUnauthorized, wallet, transactions)

\* A request has just been refused with -32504 while a payment was under way.
C7_Witness ==
    /\ last.error = INSUFFICIENT_PRIVILEGES
    /\ \E i \in Rows : transactions[i].gateway = "payme"

\* The endpoint a request is posted to
click_endpoint(endpoint, req) ==
    IF endpoint = "0" THEN click_prepare(req, wallet, transactions, now)
    ELSE click_complete(req, wallet, transactions, now)

\* C8: a Click Prepare or Complete request whose sign differs from the signature
\* computed over its signed fields is answered with error -1 and changes neither
\* the transaction nor the wallet; changing any one signed field of a validly
\* signed request while keeping the old sign is such a request.
C8_BadSignature ==
    \A endpoint \in {"0", "1"} :
        /\ \A req \in Tampered(endpoint) : req.sign # click_signature(req)
        /\ \A req \in AnyClickRequests(endpoint) :
               req.sign # click_signature(req) =>
                   click_endpoint(endpoint, req)
                       = Out(click_error(-1, "Invalid signature"), wallet, transactions)

\* A Complete has just been refused with -1 on a transaction that was prepared.
C8_Witness ==
    /\ last = Called("click_complete", -1)
    /\ \E i \in Rows : transactions[i].gateway = "click" /\ transactions[i].status = "pending"

----------------------------------------------------------------------------
(* The wallet against the transaction log *)

\* The completed rows a step has written: inserted, or brought to completed
Booked(before, after) ==
    {i \in DOMAIN after :
        /\ after[i].status = "completed"
        /\ (i \notin DOMAIN before \/ before[i].status # "completed")}

\* C9: every change of the wallet balance (bot or web debit, Click Complete, Payme
\* PerformTransaction, Payme CancelTransaction after completion) is made together
\* with a completed Transaction row that records the amount of the change.
C9_BalanceChangeIsLogged ==
    [][wallet'.balance # wallet.balance =>
          \E i \in Booked(transactions, transactions') :
              \/ transactions'[i].amount = wallet'.balance - wallet.balance
              \/ transactions'[i].amount = wallet.balance - wallet'.balance]_vars

\* C10: in every state reachable by ledger calls without skip_balance_check and
\* gateway webhooks the wallet balance is >= 0; PerformTransaction crediting A, a
\* debit spending it and CancelTransaction of the performed transaction do not
\* leave it negative.
C10_BalanceNeverNegative == wallet.balance >= 0

\* C11: in every reachable state the wallet balance equals the initial balance
\* plus the amounts of the completed crediting rows (credit and refund rows)
\* minus the amounts of the completed debit rows, whatever ledger calls, web
\* uploads and gateway webhooks have run.
C11_Credits(rows) ==
    SelectSeq(rows, LAMBDA r : r.status = "completed" /\ r.type \in {"credit", "refund"})

C11_Debits(rows) ==
    SelectSeq(rows, LAMBDA r : r.status = "completed" /\ r.type = "debit")

C11_BalanceIsLedgerSum ==
    wallet.balance = initial_balance + SumAmounts(C11_Credits(transactions))
                                     - SumAmounts(C11_Debits(transactions))

\* C12: the status of a transaction only changes along pending -> completed,
\* pending -> cancelled, pending -> failed or completed -> refunded; a cancelled,
\* failed or refunded transaction keeps its status whatever Click Complete,
\* PerformTransaction or CancelTransaction calls follow.
StatusTransitions ==
    { <<"pending", "completed">>, <<"pending", "cancelled">>,
      <<"pending", "failed">>, <<"completed", "refunded">> }

C12_StatusMachine ==
    [][\A i \in DOMAIN transactions :
          transactions'[i].status # transactions[i].status =>
              <<transactions[i].status, transactions'[i].status>> \in StatusTransitions]_vars

\* C13: add_balance, deduct_balance and refund_balance are all-or-nothing: a call
\* that returns success=False (amount <= 0, inactive wallet, insufficient
\* balance, limit exceeded, or an error raised by the insert of the Transaction
\* row after the wallet was saved) leaves the wallet and the transaction log as
\* they were before the call.
LedgerResults(amount, skip_balance_check, raised, backend) ==
    { add_balance(wallet, transactions, now, amount, None),
      deduct_balance(wallet, transactions, now, amount, skip_balance_check),
      refund_balance(wallet, transactions, now, amount),
      add_balance_raising(wallet, transactions, now, amount, raised, backend),
      deduct_balance_raising(wallet, transactions, now, amount, skip_balance_check,
                             raised, backend),
      refund_balance_raising(wallet, transactions, now, amount, raised, backend) }

C14_LimitsHold ==
    [][\A w \in Workers :
          pc[w] = "loaded" /\ pc'[w] = "done" =>
              LET obj == loc[w].obj
              IN  /\ obj.daily_limit # NULL =>
                        get_daily_spent(transactions', now') <= Val(obj.daily_limit)
                  /\ obj.monthly_limit # NULL =>
                        get_monthly_spent(transactions', now') <= Val(obj.monthly_limit)]_vars

\* C15: while the wallet is deactivated, every deduct_balance with a positive
\* amount, with either value of skip_balance_check, fails with "Wallet is
\* inactive", and one with an amount <= 0 fails with "Amount must be positive";
\* neither changes the wallet or the transaction log.
C15_InactiveBlocksDeduct ==
    ~wallet.is_active =>
        \A amount \in 0..MaxAmount, skip_balance_check \in BOOLEAN :
            LET res == deduct_balance(wallet, transactions, now, amount, skip_balance_check)
            IN  /\ ~res.success
                /\ res.error = IF amount <= 0 THEN "Amount must be positive"
                               ELSE "Wallet is inactive"
                /\ res.wallet = wallet
                /\ res.rows = transactions

\* A deactivated wallet that holds funds, after a deduct_balance call failed
C15_Witness ==
    /\ ~wallet.is_active
    /\ wallet.balance >= MaxAmount
    /\ last = Called("deduct_balance", 1)

\* C15 as stated: while the wallet is deactivated every deduct_balance fails with
\* the wallet-inactive error and leaves the balance unchanged.
C15_EveryDeductInactive ==
    ~wallet.is_active =>
        \A amount \in 0..MaxAmount, skip_balance_check \in BOOLEAN :
            LET res == deduct_balance(wallet, transactions, now, amount, skip_balance_check)
            IN  /\ ~res.success
                /\ res.error = "Wallet is inactive"
                /\ res.wallet.balance = wallet.balance

\* C16: a media message that is sent again is debited at most once: the log
\* never holds two completed debits for the same file.
DebitsFor(file_id) ==
    { i \in Rows :
        /\ transactions[i].type = "debit"
        /\ transactions[i].status = "completed"
        /\ \E t \in 1..MaxTime, uuid \in Uuids :
               transactions[i].reference_id = unique_ref(file_id, t, uuid) }

C16_RetryDebitsOnce == \A file_id \in FileIds : Cardinality(DebitsFor(file_id)) <= 1

----------------------------------------------------------------------------
(* Payme methods *)

\* C17: CreateTransaction with the id the transaction already carries as
\* external_id changes nothing and returns the state of the transaction (1
\* pending, 2 completed, -1 cancelled, -2 refunded); with another id, on a pending
\* transaction with the matching amount, it attaches the id, sets gateway payme,
\* leaves status and wallet as they are and returns state 1.
C17_CreateIdempotent ==
    \A req \in PaymeRequests("CreateTransaction", {GoodAuth}) :
        LET i == ByReference(transactions, req.order_id)
            out == payme_webhook(req, wallet, transactions, now)
        IN  i # 0 =>
              IF transactions[i].external_id = req.trans_id
              THEN /\ out.wallet = wallet
                   /\ out.rows = transactions
                   /\ out.resp.error = 0
                   /\ out.resp.result.state = state_map(transactions[i].status)
              ELSE (/\ transactions[i].status = "pending"
                    /\ req.amount # Missing
                    /\ tiyin_matches(transactions[i].amount, req.amount))
                   => /\ out.wallet = wallet
                      /\ out.rows = [transactions EXCEPT ![i].external_id = req.trans_id,
                                                         ![i].gateway = "payme"]
                      /\ out.resp.error = 0
                      /\ out.resp.result.state = CREATED

\* C18: CheckPerformTransaction changes no transaction and no wallet, whatever
\* the request; a request of Payme that names an order and an amount gets
\* -31050 when no transaction has that reference_id, else -31001 when the stored
\* amount times 100 is not the amount in tiyin, else -31008 when the status is
\* not pending, and {allow: true} in the one remaining case.
C18_CheckPerformReadOnly ==
    /\ \A req \in AnyPaymeRequests :
           req.method = "CheckPerformTransaction" =>
               LET out == payme_webhook(req, wallet, transactions, now)
               IN  out.wallet = wallet /\ out.rows = transactions
    /\ \A req \in PaymeRequests("CheckPerformTransaction", {GoodAuth}) :
           LET i == ByReference(transactions, req.order_id)
               resp == payme_webhook(req, wallet, transactions, now).resp
           IN  IF i = 0 THEN resp.error = INVALID_ACCOUNT
               ELSE IF transactions[i].amount * TIYIN_PER_UZS # req.amount
                    THEN resp.error = INVALID_AMOUNT
               ELSE IF transactions[i].status # "pending"
                    THEN resp.error = CANT_PERFORM_OPERATION
               ELSE resp.error = 0 /\ resp.result = [allow |-> TRUE]

\* CheckPerformTransaction has refused a transaction that is no longer pending
C18_Witness ==
    /\ last = Called("CheckPerformTransaction", CANT_PERFORM_OPERATION)
    /\ \E i \in Rows : i \in Orders /\ transactions[i].status # "pending"

\* C19: GetStatement(from, to) lists exactly the transactions of gateway payme
\* with from <= created_at < to (one created exactly at `to` is left out, none
\* inside the window is missing), and the state of each listed transaction is
\* the state CheckTransaction reports for the same id.
InWindow(from, to) ==
    { i \in Rows : /\ transactions[i].gateway = "payme"
                   /\ from <= timestamp_ms(transactions[i].created_at)
                   /\ timestamp_ms(transactions[i].created_at) < to }

C19_StatementWindow ==
    \A req \in PaymeRequests("GetStatement", {GoodAuth}) :
        LET resp == payme_webhook(req, wallet, transactions, now).resp
        IN  /\ resp.error = 0
            /\ {e.id : e \in resp.result.transactions}
                   = {transactions[i].external_id : i \in InWindow(req.from, req.to)}
            /\ \A e \in resp.result.transactions :
                   LET check == PaymeReq(GoodAuth, "CheckTransaction", e.id, None,
                                         Missing, Missing, Missing)
                   IN  payme_webhook(check, wallet, transactions, now).resp.result.state
                           = e.row.state

----------------------------------------------------------------------------
(* Click Prepare *)

\* C20: a validly signed Click Prepare whose merchant_trans_id matches no
\* transaction is answered with error -5 and changes no transaction and no
\* wallet.
C20_PrepareUnknownOrder ==
    \A req \in ClickRequests("0") :
        ByReference(transactions, req.merchant_trans_id) = 0 =>
            LET out == click_prepare(req, wallet, transactions, now)
            IN  /\ out.resp.error = -5
                /\ out.wallet = wallet
                /\ out.rows = transactions

----------------------------------------------------------------------------
(* Responses of the Payme webhook *)

\* C22: every response of the Payme webhook to a request whose body parses carries
\* the id of that request, for results and for every error (authentication
\* failure, unknown method, protocol errors, internal error).
C22_ResponseEchoesId ==
    \A req \in AnyPaymeRequests :
        req.json => payme_webhook(req, wallet, transactions, now).resp.id = req.id

\* C23: a successful Click Prepare (valid signature, transaction found, amount
\* equal, status pending) leaves the transaction pending and the wallet
\* unchanged, records gateway click and external_id = click_trans_id, and answers
\* error 0 with merchant_prepare_id the id of the transaction; a Prepare on a
\* transaction that is not pending changes nothing.
C23_PrepareSuccess ==
    \A req \in ClickRequests("0") :
        LET i == ByReference(transactions, req.merchant_trans_id)
            out == click_prepare(req, wallet, transactions, now)
        IN  i # 0 =>
              IF transactions[i].status # "pending"
              THEN out.wallet = wallet /\ out.rows = transactions
              ELSE float(req.amount) = transactions[i].amount
                   => /\ out.wallet = wallet
                      /\ out.rows[i].status = "pending"
                      /\ out.rows[i].gateway = "click"
                      /\ out.rows[i].external_id = req.click_trans_id
                      /\ out.resp.error = 0
                      /\ out.resp.merchant_prepare_id = ToString(i)

----------------------------------------------------------------------------
(* Balance columns of the transaction log *)

\* C24: every completed row has balance_before and balance_after set, with
\* balance_after - balance_before = +amount on credit, refund and bonus rows and
\* -amount on debit rows, rows completed by Click Complete and PerformTransaction
\* included; once a row is completed no operation changes the two columns.
BalanceColumnsAgree(row) ==
    /\ row.balance_before # NULL
    /\ row.balance_after # NULL
    /\ Val(row.balance_after) - Val(row.balance_before)
           = IF row.type = "debit" THEN -row.amount ELSE row.amount

C24_BalanceColumns ==
    /\ [](\A i \in Rows : transactions[i].status = "completed"
                              => BalanceColumnsAgree(transactions[i]))
    /\ [][\A i \in Rows :
             transactions[i].status = "completed" =>
                 /\ transactions'[i].balance_before = transactions[i].balance_before
                 /\ transactions'[i].balance_after = transactions[i].balance_after]_vars

\* C25: the state CheckTransaction reports determines the status of the payme
\* transaction: 1 is reported for pending only, 2 for completed only, -1 for
\* cancelled only and -2 for refunded only.
StatusOfState(state) ==
    CASE state = CREATED                  -> "pending"
      [] state = COMPLETED                -> "completed"
      [] state = CANCELLED                -> "cancelled"
      [] state = CANCELLED_AFTER_COMPLETE -> "refunded"
      [] OTHER                            -> "none"

C25_StateOneToOne ==
    \A id \in PaymeIds :
        LET i == ByExternal(transactions, id)
            req == PaymeReq(GoodAuth, "CheckTransaction", id, None, Missing, Missing, Missing)
            resp == payme_webhook(req, wallet, transactions, now).resp
        IN  i \in Rows =>
                /\ resp.error = 0
                /\ StatusOfState(resp.result.state) = transactions[i].status

----------------------------------------------------------------------------
(* Internal errors of the webhooks *)

\* Requests of the gateways on which the handler raises: a Click amount float()
\* cannot parse, a Payme request that lacks the amount or the window
UnparsableAmounts == {"x", "y"}

ClickRaising(action) ==
    { [g EXCEPT !.sign = click_signature(g)] :
        g \in { [f EXCEPT !.amount = a] :
                  f \in {h \in ClickFields(action) :
                           ByReference(transactions, h.merchant_trans_id) # 0},
                  a \in UnparsableAmounts } }

PaymeRaising ==
    { PaymeReq(GoodAuth, "CheckPerformTransaction", None, o, Missing, Missing, Missing) :
        o \in {q \in OrderIds : ByReference(transactions, q) # 0} }
    \cup { PaymeReq(GoodAuth, "GetStatement", None, None, Missing, Missing, Missing) }

\* C26: when a webhook handler raises an unexpected exception the gateway gets
\* the generic internal error, a fixed code with a fixed message: the response
\* is the same whatever the exception was and carries none of its text.
C26_GenericInternalError ==
    /\ \A action \in {"0", "1"} :
           \A r1 \in ClickRaising(action), r2 \in ClickRaising(action) :
               /\ click_endpoint(action, r1).resp.error = -9
               /\ click_endpoint(action, r1).resp.error_note
                      = click_endpoint(action, r2).resp.error_note
    /\ \A r1 \in PaymeRaising, r2 \in PaymeRaising :
           LET resp1 == payme_webhook(r1, wallet, transactions, now).resp
               resp2 == payme_webhook(r2, wallet, transactions, now).resp
           IN  resp1.error = INTERNAL_ERROR /\ resp1.message = resp2.message

----------------------------------------------------------------------------
(* Concurrent webhooks *)

\* Both workers have finished calls that read the same transaction while it was
\* pending
RacedOnPending(method1, method2) ==
    /\ pc[1] = "done" /\ pc[2] = "done"
    /\ loc[1].method = method1 /\ loc[2].method = method2
    /\ loc[1].i = loc[2].i
    /\ loc[1].trans.status = "pending" /\ loc[2].trans.status = "pending"

\* C27: two identical PerformTransaction requests, or two identical Click
\* Complete requests, for the same pending transaction of amount A that are
\* processed concurrently credit the wallet once: balance = initial balance + A
\* and total_credited = A.
C27_ConcurrentCreditOnce ==
    \A method \in {"PerformTransaction", "click_complete"} :
        (/\ RacedOnPending(method, method)
         /\ loc[1].req = loc[2].req
         /\ last.error = 0)
        => /\ wallet.balance = initial_balance + loc[1].trans.amount
           /\ wallet.total_credited = loc[1].trans.amount

\* C28: after a PerformTransaction and a CancelTransaction for the same pending
\* transaction were processed concurrently, wallet and status agree: the status
\* is completed and the wallet was credited the amount once, or the status is
\* cancelled or refunded and the balance is the initial balance.
C28_PerformCancelAgree ==
    \A w \in Workers :
        (/\ RacedOnPending(loc[1].method, loc[2].method)
         /\ loc[w].method = "PerformTransaction"
         /\ loc[3 - w].method = "CancelTransaction")
        => LET trans == transactions[loc[w].i]
           IN  \/ /\ trans.status = "completed"
                  /\ wallet.balance = initial_balance + trans.amount
               \/ /\ trans.status \in {"cancelled", "refunded"}
                  /\ wallet.balance = initial_balance

----------------------------------------------------------------------------
(* Gateway ids *)

\* C29: once a gateway id is attached to a transaction as external_id no request
\* replaces it by another id: CreateTransaction with another id for the order,
\* Click Prepare and Click Complete with other Click ids leave it as it was.
C29_ExternalIdKept ==
    [][\A i \in Rows :
          transactions[i].external_id # None =>
              transactions'[i].external_id = transactions[i].external_id]_vars

\* C30: a Click Complete credits the wallet only for a transaction on which a
\* Click Prepare has succeeded and whose id is the merchant_prepare_id of the
\* request: a Complete for a pending transaction that was never prepared, or
\* with the prepare id of another transaction, leaves the balance unchanged.
Prepared(row) == row.gateway = "click" /\ row.gateway_transaction_id # None

C30_CompleteNeedsPrepare ==
    \A req \in ClickRequests("1") :
        LET i == ByReference(transactions, req.merchant_trans_id)
            out == click_complete(req, wallet, transactions, now)
        IN  (/\ i # 0
             /\ transactions[i].status = "pending"
             /\ ~Prepared(transactions[i]) \/ req.merchant_prepare_id # ToString(i))
            => out.wallet.balance = wallet.balance

====
